---- MODULE Spec2Model ----
(***************************************************************************)
(* School Mini-Maps (src/app.py): a Streamlit view script.  Every user     *)
(* interaction re-executes the script top to bottom against the session    *)
(* state; one action below is one such interaction together with the       *)
(* script run (and the rerun() it may request) that it triggers.           *)
(*                                                                         *)
(* Encodings.  Python floats are written as their decimal literals         *)
(* (strings) for coordinates and as integer hundredths for opacities       *)
(* (0.8 is 80).  Python strings that the code parses (hex colours) are     *)
(* sequences of one-character strings; strings that are only copied are    *)
(* TLA+ strings.  A key that is absent from st.session_state, or whose     *)
(* value is None and is only tested for truth, is the empty sequence.      *)
(***************************************************************************)
EXTENDS Integers, Sequences, FiniteSets, TLC

VARIABLES
    labels,             \* st.session_state.labels
    last_clicked,       \* st.session_state.last_clicked
    selected_label_idx, \* st.session_state.selected_label_idx (selectbox key)
    address_coords,     \* st.session_state.address_coords
    add_mode,           \* st.session_state["add_mode"] (mirrors the radio)
    icon_to_add,        \* st.session_state icon_to_add (selectbox key)
    icon_size_add,      \* st.session_state icon_size_add (slider key)
    icon_color_add,     \* st.session_state icon_color_add (color_picker key)
    map_clicked,        \* map_state["last_clicked"] as reported by st_folium
    markers,            \* per record, what the last create_folium_map() made of it
    st_messages,        \* st.error texts shown by the last run
    op,                 \* what the last run was triggered by: a map click, a
                        \* button (named by its handler) or some other widget
    arg,                \* arguments of the last direct call (SpecStore, SpecColor)
    ret                 \* outcome of the last direct call (SpecStore, SpecColor)

vars == <<labels, last_clicked, selected_label_idx, address_coords, add_mode,
          icon_to_add, icon_size_add, icon_color_add, map_clicked, markers,
          st_messages, op, arg, ret>>

sessionVars == <<labels, last_clicked, selected_label_idx, address_coords,
                 add_mode, icon_to_add, icon_size_add, icon_color_add,
                 map_clicked, markers, st_messages>>

callVars == <<arg, ret>>

-----------------------------------------------------------------------------
(* Bounds and input domains *)

MaxLabels == 2      \* clicks are ignored by the model once the list is this long
MaxHexLen == 7      \* longest hex string handed to rgba_from_hex in SpecColor

None == "None"      \* Python None among values modelled as strings
Absent == <<>>      \* missing session key / None tested only for truth

Max(a, b) == IF a >= b THEN a ELSE b
Min(a, b) == IF a <= b THEN a ELSE b

\* dict.get(key, default) on a record
Get(d, k, default) == IF k \in DOMAIN d THEN d[k] ELSE default

\* st.session_state.get(key, default) on an optional session value
SessionGet(v, default) == IF v = Absent THEN default ELSE v[1]

\* dict.pop(key, None): the dict without the key
DictPop(d, k) == [f \in (DOMAIN d) \ {k} |-> d[f]]

\* d[k] = v on a dict: add or overwrite the key
DictSet(d, k, v) == [f \in (DOMAIN d) \cup {k} |-> IF f = k THEN v ELSE d[f]]

ClickPoints == { [lat |-> "33.9240", lng |-> "-118.2621"],
                 [lat |-> "33.9251", lng |-> "-118.2606"] }

DefaultCoords == <<"33.9239", "-118.2620">>
GeocodeHits == { <<"34.0522", "-118.2437">> }
\* what geolocator.geocode() does: a location, nothing, or an exception
GeocodeOutcomes == { "found", "not_found", "timeout", "error" }

HexWhite == <<"#", "F", "F", "F", "F", "F", "F">>

TextStyles == { "Filled (orange)", "Label", "Outlined" }
Texts      == { "Gym" }
TextSizes  == { 16 }
TextColors == { "#111" }
FillColors == { "#f6a500" }
BgHexes    == { HexWhite }
BgAlphas   == { 80 }

IconNames  == { "Info", "Parking" }
IconSizes  == { 28 }
IconColors == { "#111111" }

-----------------------------------------------------------------------------
(* Colour helpers *)

HexDigits == { "0", "F" }
HexAlphabet == { "#", "0", "F", "G" }
NoneHex == <<"None">>          \* Python None passed as the hex argument

HexVal(c) == IF c = "F" THEN 15 ELSE 0

\* str.lstrip("#"): drop every leading '#'
RECURSIVE LStripHash(_)
LStripHash(s) ==
    IF s # <<>> /\ Head(s) = "#" THEN LStripHash(Tail(s)) ELSE s

\* h[i:i+2] with Python slice clipping (i is 0-based)
Slice2(h, i) == SubSeq(h, Min(i + 1, Len(h) + 1), Min(i + 2, Len(h)))

\* int(s, 16) on a slice of at most two characters; -1 stands for ValueError
Int16(s) ==
    IF s = <<>> \/ \E k \in 1..Len(s) : s[k] \notin HexDigits THEN -1
    ELSE IF Len(s) = 1 THEN HexVal(s[1])
    ELSE 16 * HexVal(s[1]) + HexVal(s[2])

\* tuple(int(h[i:i+2], 16) for i in (0, 2, 4)), given the three conversions
RgbTuple(r, g, b) ==
    IF r < 0 \/ g < 0 \/ b < 0 THEN <<"ValueError">> ELSE <<r, g, b>>

\* the channels of a string already stripped and defaulted
Channels(h) ==
    RgbTuple(Int16(Slice2(h, 0)), Int16(Slice2(h, 2)), Int16(Slice2(h, 4)))

\* s or "FFFFFF"
OrFFFFFF(s) == IF s = <<>> THEN Tail(HexWhite) ELSE s

\* h = (h or "").lstrip("#") or "FFFFFF", then the three channels
hex_to_rgb(h) ==
    Channels(OrFFFFFF(LStripHash(IF h = NoneHex THEN <<>> ELSE h)))

\* f"rgba({r},{g},{b},{a})", unless hex_to_rgb raised
RgbaString(rgb, a) ==
    IF rgb = <<"ValueError">> THEN <<"ValueError">>
    ELSE <<"rgba", rgb[1], rgb[2], rgb[3], a>>

rgba_from_hex(hex_color, alpha) ==
    RgbaString(hex_to_rgb(IF hex_color = NoneHex \/ hex_color = <<>>
                          THEN HexWhite ELSE hex_color),   \* hex_color or "#FFFFFF"
               Max(0, Min(100, alpha)))

\* colorize_svg + the enclosing <div>: the icon's HTML
IconHtml(name, size, color) == <<"div", size, size, name, color>>

-----------------------------------------------------------------------------
(* Rendering: create_folium_map *)

IsIcon(lab) == Get(lab, "style", "Label") = "SVG_ICON"

\* the except branch was taken for a record
RenderRaised == [exc |-> "ValueError"]

\* the marker of a record styled "Label", given its background
LabelMarker(lab, size, color, bg) ==
    IF bg = <<"ValueError">> THEN RenderRaised
    ELSE [lat |-> lab.lat, lon |-> lab.lon,
          html |-> <<"label", size, color, bg, lab.text>>]

\* the body of the try block for one record: its marker, or the exception
RenderOne(lab) ==
    IF IsIcon(lab)
    THEN [lat |-> lab.lat, lon |-> lab.lon, html |-> lab.svg]
    ELSE LET style == Get(lab, "style", "Label")
             size  == Get(lab, "size", 16)
             color == Get(lab, "color", "#111")
         IN  IF style = "Label"
             THEN LabelMarker(lab, size, color,
                              rgba_from_hex(Get(lab, "bg_hex", HexWhite),
                                            Get(lab, "bg_alpha", 80)))
             ELSE IF style = "Outlined"
             THEN [lat |-> lab.lat, lon |-> lab.lon,
                   html |-> <<"outlined", size, color, lab.text>>]
             ELSE [lat |-> lab.lat, lon |-> lab.lon,
                   html |-> <<"filled", size, color,
                              Get(lab, "fillcolor", "#f6a500"), lab.text>>]

\* The loop of create_folium_map: the outcome of the try block for every
\* record, in list order.  A record that raised is skipped with an st.warning
\* and adds no marker to the map.
create_folium_map(ls) == [i \in 1..Len(ls) |-> RenderOne(ls[i])]

\* the markers the map received
EmittedMarkers(ms) == SelectSeq(ms, LAMBDA mk : mk # RenderRaised)

-----------------------------------------------------------------------------
(* Session state after construction (first script run, no interaction) *)

Init ==
    /\ labels = <<>>
    /\ last_clicked = Absent
    /\ selected_label_idx = 0
    /\ address_coords = DefaultCoords
    /\ add_mode = "label"
    /\ icon_to_add = Absent
    /\ icon_size_add = Absent
    /\ icon_color_add = Absent
    /\ map_clicked = Absent
    /\ markers = <<>>
    /\ st_messages = {}
    /\ op = "init"
    /\ arg = <<>>
    /\ ret = <<>>

-----------------------------------------------------------------------------
(* The script run *)

\* the record appended for a click in "label" mode
NewTextLabel(p) ==
    [lat |-> p.lat, lon |-> p.lng, text |-> "New Label", style |-> "Label",
     size |-> 16, color |-> "#111", bg_hex |-> HexWhite, bg_alpha |-> 80]

\* the record appended for a click in "icon" mode
NewIcon(p) ==
    LET icon_name  == SessionGet(icon_to_add, "Info")
        icon_size  == SessionGet(icon_size_add, 28)
        icon_color == SessionGet(icon_color_add, "#111111")
    IN  [lat |-> p.lat, lon |-> p.lng, style |-> "SVG_ICON", size |-> icon_size,
         svg |-> IconHtml(icon_name, icon_size, icon_color),
         base_svg_key |-> icon_name, color |-> icon_color]

\* Faulty variant: the reported click is not compared with the stored one
IsNewClick_Truthy(mc, lc) == mc # Absent

\* the condition of the click handler
IsNewClick(mc, lc) == mc # Absent /\ mc # lc

\* Faulty variant: the new record is inserted at the front of the list
ClickAppend_Prepend(ls, mc) ==
    IF add_mode = "label" THEN <<NewTextLabel(mc)>> \o ls
    ELSE <<NewIcon(mc)>> \o ls

\* labels after the click handler ran on the reported click mc
ClickAppend(ls, mc) ==
    IF add_mode = "label" THEN Append(ls, NewTextLabel(mc))
    ELSE Append(ls, NewIcon(mc))

\* The script from its top through the click handler, for a run in which the
\* map widget reports mc.  A new click appends and calls rerun(); the second
\* run sees the click as already handled and falls through the right panel.
ClickHandler(mc) ==
    /\ map_clicked' = mc
    /\ IF IsNewClick(mc, last_clicked)
       THEN /\ Len(labels) < MaxLabels
            /\ last_clicked' = mc
            /\ labels' = ClickAppend(labels, mc)
       ELSE UNCHANGED <<last_clicked, labels>>

\* the render pass of the final run of an interaction
RenderPass(extra) ==
    /\ markers' = create_folium_map(labels')
    /\ st_messages' = extra

\* the right panel is reached only when the click handler did not rerun
ReachesRightPanel == ~IsNewClick(map_clicked, last_clicked)

\* the selectbox "Select an element to edit" returns an option of range(len)
EditPanelShown ==
    /\ ReachesRightPanel
    /\ labels # <<>>
    /\ selected_label_idx \in 0..(Len(labels) - 1)

iconForm == <<icon_to_add, icon_size_add, icon_color_add>>

\* A click on the map: st_folium reports p as last_clicked.
MapClick(p) ==
    /\ ClickHandler(p)
    /\ UNCHANGED <<selected_label_idx, address_coords, add_mode, iconForm, callVars>>
    /\ RenderPass({})
    /\ op' = "map"

\* Faulty variant: the session list is re-created on every run (no "not in" guard)
ChangeViewOption_Reinit ==
    /\ map_clicked' = map_clicked
    /\ last_clicked' = last_clicked
    /\ labels' = <<>>
    /\ UNCHANGED <<selected_label_idx, address_coords, add_mode, iconForm, callVars>>
    /\ RenderPass({})
    /\ op' = "widget"

\* A change of any widget whose value only feeds the map constructor or a
\* local of the script: basemap, labels overlay, address text, zoom, school
\* marker, drawing weight and colour, the fields of the text add form.
ChangeViewOption ==
    /\ ClickHandler(map_clicked)
    /\ UNCHANGED <<selected_label_idx, address_coords, add_mode, iconForm, callVars>>
    /\ RenderPass({})
    /\ op' = "widget"

\* geocode_address: the pair it returns.  A location gives its coordinates;
\* no location, and either except clause (after its st.error), give (None, None).
geocode_address(outcome, hit) ==
    IF outcome = "found" THEN hit ELSE <<None, None>>

\* Faulty variant: the handler stores whatever geocode_address returned
SearchCoords_Unconditional(coords, lat, lon) == <<lat, lon>>

\* address_coords after the search_button handler got (lat, lon)
SearchCoords(coords, lat, lon) ==
    IF lat # None /\ lon # None THEN <<lat, lon>> ELSE coords

\* the st.error of the search_button handler
SearchErrors(lat, lon) ==
    IF lat # None /\ lon # None THEN {}
    ELSE {"Could not find address. Showing last known location."}

\* "Go to Address"
Search(outcome, hit) ==
    LET g == geocode_address(outcome, hit)
    IN  /\ address_coords' = SearchCoords(address_coords, g[1], g[2])
        /\ ClickHandler(map_clicked)
        /\ UNCHANGED <<selected_label_idx, add_mode, iconForm, callVars>>
        /\ RenderPass(SearchErrors(g[1], g[2]))
        /\ op' = "search_button"

\* the radio "What to add on click?"; the icon widgets exist only in icon mode
ChangeAddMode(m) ==
    /\ ReachesRightPanel
    /\ add_mode' = m
    /\ IF m = "icon"
       THEN /\ icon_to_add' = IF icon_to_add = Absent THEN <<"Info">> ELSE icon_to_add
            /\ icon_size_add' = IF icon_size_add = Absent THEN <<28>> ELSE icon_size_add
            /\ icon_color_add' = IF icon_color_add = Absent THEN <<"#111111">>
                                 ELSE icon_color_add
       ELSE /\ icon_to_add' = Absent
            /\ icon_size_add' = Absent
            /\ icon_color_add' = Absent
    /\ UNCHANGED <<labels, last_clicked, map_clicked, selected_label_idx,
                   address_coords, callVars>>
    /\ RenderPass({})
    /\ op' = "widget"

\* the widgets of the "Icon" add form
SetIconForm(name, size, color) ==
    /\ ReachesRightPanel
    /\ add_mode = "icon"
    /\ icon_to_add' = <<name>>
    /\ icon_size_add' = <<size>>
    /\ icon_color_add' = <<color>>
    /\ UNCHANGED <<labels, last_clicked, map_clicked, selected_label_idx,
                   address_coords, add_mode, callVars>>
    /\ RenderPass({})
    /\ op' = "widget"

\* the selectbox "Select an element to edit"
SelectElement(i) ==
    /\ ReachesRightPanel
    /\ labels # <<>>
    /\ i \in 0..(Len(labels) - 1)
    /\ selected_label_idx' = i
    /\ UNCHANGED <<labels, last_clicked, map_clicked, address_coords, add_mode,
                   iconForm, callVars>>
    /\ RenderPass({})
    /\ op' = "widget"

\* Python list indexing: a negative index counts from the end
PyIndex(n, i) == IF i < 0 THEN i + n ELSE i

\* the index names an element; otherwise ls[i] and ls.pop(i) raise IndexError
IndexOK(ls, i) == PyIndex(Len(ls), i) \in 0..(Len(ls) - 1)

\* the position (1-based) that ls[i] names
ListPos(ls, i) == PyIndex(Len(ls), i) + 1

\* Faulty variant: ls.pop() without the index: the last record goes
list_pop_Last(ls, i) ==
    IF IndexOK(ls, i) THEN SubSeq(ls, 1, Len(ls) - 1) ELSE ls

\* the list after ls.pop(i); an IndexError leaves it as it was
list_pop(ls, i) ==
    IF IndexOK(ls, i)
    THEN SubSeq(ls, 1, ListPos(ls, i) - 1) \o SubSeq(ls, ListPos(ls, i) + 1, Len(ls))
    ELSE ls

\* the record after "Apply icon changes"
ApplyIcon(lab, name, size, color) ==
    DictSet(DictSet(DictSet(DictSet(lab, "size", size), "color", color),
                    "base_svg_key", name),
            "svg", IconHtml(name, size, color))

ApplyIconChanges(name, size, color) ==
    /\ EditPanelShown
    /\ IsIcon(labels[ListPos(labels, selected_label_idx)])
    /\ labels' = [labels EXCEPT ![ListPos(labels, selected_label_idx)] =
                      ApplyIcon(@, name, size, color)]
    /\ UNCHANGED <<last_clicked, map_clicked, selected_label_idx, address_coords,
                   add_mode, iconForm, callVars>>
    /\ RenderPass({})
    /\ op' = "apply_icon"

\* Faulty variant: the keys of the other style are left in the record
ApplyText_NoPop(lab, text, style, size, color, fill, bg_hex, bg_alpha) ==
    LET l4 == DictSet(DictSet(DictSet(DictSet(lab, "text", text), "style", style),
                              "size", size), "color", color)
    IN  IF style = "Filled (orange)"
        THEN DictSet(l4, "fillcolor", fill)
        ELSE DictSet(DictSet(l4, "bg_hex", bg_hex), "bg_alpha", bg_alpha)

\* the record after "Apply text changes"
ApplyText(lab, text, style, size, color, fill, bg_hex, bg_alpha) ==
    LET l4 == DictSet(DictSet(DictSet(DictSet(lab, "text", text), "style", style),
                              "size", size), "color", color)
    IN  IF style = "Filled (orange)"
        THEN DictPop(DictPop(DictSet(l4, "fillcolor", fill), "bg_hex"), "bg_alpha")
        ELSE DictPop(DictSet(DictSet(l4, "bg_hex", bg_hex), "bg_alpha", bg_alpha),
                     "fillcolor")

\* Faulty variant: the handler writes to the first record, not the selected one
ApplyTextChanges_First(text, style, size, color, fill, bg_hex, bg_alpha) ==
    /\ EditPanelShown
    /\ ~IsIcon(labels[ListPos(labels, selected_label_idx)])
    /\ labels' = [labels EXCEPT ![1] =
                      ApplyText(@, text, style, size, color, fill, bg_hex, bg_alpha)]
    /\ UNCHANGED <<last_clicked, map_clicked, selected_label_idx, address_coords,
                   add_mode, iconForm, callVars>>
    /\ RenderPass({})
    /\ op' = "apply_text"

ApplyTextChanges(text, style, size, color, fill, bg_hex, bg_alpha) ==
    /\ EditPanelShown
    /\ ~IsIcon(labels[ListPos(labels, selected_label_idx)])
    /\ labels' = [labels EXCEPT ![ListPos(labels, selected_label_idx)] =
                      ApplyText(@, text, style, size, color, fill, bg_hex, bg_alpha)]
    /\ UNCHANGED <<last_clicked, map_clicked, selected_label_idx, address_coords,
                   add_mode, iconForm, callVars>>
    /\ RenderPass({})
    /\ op' = "apply_text"

\* Faulty variant: the selection is left where it was
SelectionAfterDelete_Keep(i) == i

\* the selection after deleting index i
SelectionAfterDelete(i) == Max(0, i - 1)

\* "Delete Selected Element"
DeleteSelected ==
    /\ EditPanelShown
    /\ labels' = list_pop(labels, selected_label_idx)
    /\ selected_label_idx' = SelectionAfterDelete(selected_label_idx)
    /\ UNCHANGED <<last_clicked, map_clicked, address_coords, add_mode, iconForm,
                   callVars>>
    /\ RenderPass({})
    /\ op' = "delete_button"

\* Faulty variant: the list is emptied but the selection is not reset
ClearAll_KeepsSelection ==
    /\ EditPanelShown
    /\ labels' = <<>>
    /\ UNCHANGED <<selected_label_idx, last_clicked, map_clicked, address_coords,
                   add_mode, iconForm, callVars>>
    /\ RenderPass({})
    /\ op' = "clear_all_button"

\* "Clear All Elements"
ClearAll ==
    /\ EditPanelShown
    /\ labels' = <<>>
    /\ selected_label_idx' = 0
    /\ UNCHANGED <<last_clicked, map_clicked, address_coords, add_mode, iconForm,
                   callVars>>
    /\ RenderPass({})
    /\ op' = "clear_all_button"

Next ==
    \/ \E p \in ClickPoints : MapClick(p)
    \/ ChangeViewOption
    \/ \E o \in GeocodeOutcomes, h \in GeocodeHits : Search(o, h)
    \/ \E m \in {"label", "icon"} : ChangeAddMode(m)
    \/ \E n \in IconNames, s \in IconSizes, c \in IconColors : SetIconForm(n, s, c)
    \/ \E i \in 0..(MaxLabels + 1) : SelectElement(i)
    \/ \E n \in IconNames, s \in IconSizes, c \in IconColors :
          ApplyIconChanges(n, s, c)
    \/ \E t \in Texts, y \in TextStyles, s \in TextSizes, c \in TextColors,
          f \in FillColors, b \in BgHexes, a \in BgAlphas :
          ApplyTextChanges(t, y, s, c, f, b, a)
    \/ DeleteSelected
    \/ ClearAll

Spec == Init /\ [][Next]_vars

-----------------------------------------------------------------------------
(* The store's list operations called with an arbitrary index.  The edit      *)
(* panel reaches labels[i] and labels.pop(i) only through the selectbox; here *)
(* the same statements run on any integer index, the list being filled by     *)
(* map clicks as in the application.                                          *)

StoreIndexes == (0 - (MaxLabels + 1))..(MaxLabels + 1)

\* labels.pop(i)
RemoveAt(i) ==
    /\ arg' = <<i>>
    /\ ret' = IF IndexOK(labels, i) THEN <<"ok">> ELSE <<"IndexError">>
    /\ labels' = list_pop(labels, i)
    /\ op' = "removeAt"
    /\ UNCHANGED <<last_clicked, selected_label_idx, address_coords, add_mode,
                   iconForm, map_clicked, markers, st_messages>>

\* lab = labels[i], then the assignments of the Apply handler for its kind
UpdateAt(i, style, name) ==
    /\ arg' = <<i>>
    /\ ret' = IF IndexOK(labels, i) THEN <<"ok">> ELSE <<"IndexError">>
    /\ labels' =
         IF ~IndexOK(labels, i) THEN labels
         ELSE [labels EXCEPT ![ListPos(labels, i)] =
                 IF IsIcon(@) THEN ApplyIcon(@, name, 28, "#111111")
                 ELSE ApplyText(@, "Gym", style, 16, "#111", "#f6a500", HexWhite, 80)]
    /\ op' = "update"
    /\ UNCHANGED <<last_clicked, selected_label_idx, address_coords, add_mode,
                   iconForm, map_clicked, markers, st_messages>>

NextStore ==
    \/ \E p \in ClickPoints : MapClick(p)
    \/ \E m \in {"label", "icon"} : ChangeAddMode(m)
    \/ \E i \in StoreIndexes : RemoveAt(i)
    \/ \E i \in StoreIndexes, y \in TextStyles, n \in IconNames : UpdateAt(i, y, n)

SpecStore == Init /\ [][NextStore]_vars

-----------------------------------------------------------------------------
(* rgba_from_hex called directly on bounded inputs *)

HexInputs == {NoneHex} \cup UNION { [1..n -> HexAlphabet] : n \in 0..MaxHexLen }
AlphaInputs == { 0 - 50, 50, 150 }

InitColor ==
    /\ labels = <<>>
    /\ last_clicked = Absent
    /\ selected_label_idx = 0
    /\ address_coords = DefaultCoords
    /\ add_mode = "label"
    /\ icon_to_add = Absent
    /\ icon_size_add = Absent
    /\ icon_color_add = Absent
    /\ map_clicked = Absent
    /\ markers = <<>>
    /\ st_messages = {}
    /\ op = "init"
    /\ arg \in { <<h, a>> : h \in HexInputs, a \in AlphaInputs }
    /\ ret = <<>>

CallRgbaFromHex ==
    /\ op = "init"
    /\ ret' = rgba_from_hex(arg[1], arg[2])
    /\ op' = "rgba_from_hex"
    /\ UNCHANGED <<sessionVars, arg>>

NextColor == CallRgbaFromHex

SpecColor == InitColor /\ [][NextColor]_vars

-----------------------------------------------------------------------------
(* Properties *)

Filled == "Filled (orange)"

\* the number of positions of ls that hold a record equal to r
Count(ls, r) == Cardinality({ j \in 1..Len(ls) : ls[j] = r })

\* a run triggered by a map click that the click handler takes as new
IsAddStep == op' = "map" /\ IsNewClick(map_clicked', last_clicked)

\* C1: a new map click appends exactly one record: the list is one longer, its
\* last element is the new record (at the click position, of the kind chosen
\* by add_mode), and the records already present keep their positions.
C1_AddAppendsOne ==
    [][IsAddStep =>
         /\ Len(labels') = Len(labels) + 1
         /\ SubSeq(labels', 1, Len(labels)) = labels
         /\ labels'[Len(labels')].lat = map_clicked'.lat
         /\ labels'[Len(labels')].lon = map_clicked'.lng
         /\ IsIcon(labels'[Len(labels')]) <=> (add_mode = "icon")]_vars

C1_Witness ==
    /\ op = "map"
    /\ Len(labels) = 2
    /\ labels[2].lat = last_clicked.lat
    /\ IsIcon(labels[2])
    /\ ~IsIcon(labels[1])

\* C2 as stated: after Delete Selected Element the list is one shorter, holds
\* the removed record at no position, keeps the records before i and moves the
\* records after i down by one.
C2_RemovedRecordAbsent ==
    [][op' = "delete_button" =>
         /\ Len(labels') = Len(labels) - 1
         /\ \A j \in 1..Len(labels') : labels'[j] # labels[selected_label_idx + 1]
         /\ \A j \in 1..selected_label_idx : labels'[j] = labels[j]
         /\ \A j \in (selected_label_idx + 1)..Len(labels') :
               labels'[j] = labels[j + 1]]_vars

\* C2 amended: after Delete Selected Element the list is one shorter, holds
\* exactly one record fewer that equals the removed one, keeps the records
\* before i and moves the records after i down by one.
C2_RemoveAtShifts ==
    [][op' = "delete_button" =>
         /\ Len(labels') = Len(labels) - 1
         /\ Count(labels', labels[selected_label_idx + 1])
              = Count(labels, labels[selected_label_idx + 1]) - 1
         /\ \A j \in 1..selected_label_idx : labels'[j] = labels[j]
         /\ \A j \in (selected_label_idx + 1)..Len(labels') :
               labels'[j] = labels[j + 1]]_vars

C2_Witness ==
    /\ op = "delete_button"
    /\ Len(labels) = 1
    /\ selected_label_idx = 0
    /\ labels[1].lat # last_clicked.lat

C4_StyleFieldExclusivity ==
    \A i \in 1..Len(labels) :
        ~IsIcon(labels[i]) =>
            IF labels[i].style = Filled
            THEN /\ "fillcolor" \in DOMAIN labels[i]
                 /\ "bg_hex" \notin DOMAIN labels[i]
                 /\ "bg_alpha" \notin DOMAIN labels[i]
            ELSE /\ "fillcolor" \notin DOMAIN labels[i]
                 /\ "bg_hex" \in DOMAIN labels[i]
                 /\ "bg_alpha" \in DOMAIN labels[i]

C4_Witness ==
    /\ op = "apply_text"
    /\ \E i \in 1..Len(labels) : ~IsIcon(labels[i]) /\ labels[i].style = Filled
    /\ \E i \in 1..Len(labels) : ~IsIcon(labels[i]) /\ labels[i].style = "Outlined"

\* C5: an Apply (text or icon) changes neither the length of the list, nor any
\* record other than the selected one, nor the selected record's position or
\* kind.
C5_UpdateFrame ==
    [][op' \in {"apply_icon", "apply_text"} =>
         /\ Len(labels') = Len(labels)
         /\ \A j \in 1..Len(labels) :
               j # selected_label_idx + 1 => labels'[j] = labels[j]
         /\ labels'[selected_label_idx + 1].lat = labels[selected_label_idx + 1].lat
         /\ labels'[selected_label_idx + 1].lon = labels[selected_label_idx + 1].lon
         /\ IsIcon(labels'[selected_label_idx + 1])
              <=> IsIcon(labels[selected_label_idx + 1])]_vars

C5_Witness ==
    /\ op \in {"apply_icon", "apply_text"}
    /\ Len(labels) = 2
    /\ selected_label_idx = 1
    /\ labels[1] = NewTextLabel([lat |-> labels[1].lat, lng |-> labels[1].lon])
    /\ labels[2] # NewTextLabel([lat |-> labels[2].lat, lng |-> labels[2].lon])

\* C6: after Clear All Elements the list is empty and the selection is 0.
C6_ClearEmpties ==
    op = "clear_all_button" => (labels = <<>> /\ selected_label_idx = 0)

C6_Witness ==
    /\ op = "clear_all_button"
    /\ labels = <<>>
    /\ last_clicked # Absent

\* a run that executes no add, apply, delete or clear handler
IsReadOnlyStep ==
    \/ op' \in {"widget", "search_button"}
    \/ op' = "map" /\ ~IsNewClick(map_clicked', last_clicked)

\* C7: a run triggered by anything but add, apply, delete or clear leaves the
\* list as it was, and every render pass visits the records in list order.
C7_RenderReadsOnly ==
    /\ [](/\ Len(markers) = Len(labels)
          /\ \A i \in 1..Len(labels) :
                markers[i] # RenderRaised =>
                    (markers[i].lat = labels[i].lat /\ markers[i].lon = labels[i].lon))
    /\ [][IsReadOnlyStep => labels' = labels]_vars

C7_Witness ==
    /\ op = "widget"
    /\ Len(labels) = 2
    /\ Len(EmittedMarkers(markers)) = 2
    /\ markers[1].lat # markers[2].lat

IsSixHex(h) == Len(h) = 6 /\ \A k \in 1..6 : h[k] \in HexDigits

\* "#RRGGBB" or "RRGGBB"
IsValidHexColor(h) ==
    /\ h # NoneHex
    /\ \/ IsSixHex(h)
       \/ Len(h) = 7 /\ Head(h) = "#" /\ IsSixHex(Tail(h))

\* C8 as stated: for a missing or invalid hex string rgba_from_hex returns the
\* channels 255,255,255 with the (clamped) alpha.
C8_InvalidHexIsWhite ==
    (op = "rgba_from_hex" /\ ~IsValidHexColor(arg[1])) =>
        ret = <<"rgba", 255, 255, 255, Max(0, Min(100, arg[2]))>>

\* the search of the last run failed
SearchFailed(o, msgs) == o = "search_button" /\ msgs # {}

\* C9: the map centre is always a pair of coordinates, never (None, None), and a
\* failed search leaves the centre and the list as they were.
C9_FailedSearchKeepsState ==
    /\ [](address_coords[1] # None /\ address_coords[2] # None)
    /\ [][SearchFailed(op', st_messages') =>
            (address_coords' = address_coords /\ labels' = labels)]_vars

C9_Witness ==
    /\ SearchFailed(op, st_messages)
    /\ address_coords \in GeocodeHits
    /\ labels # <<>>

\* C10: whenever the list is non-empty the selection is one of its indexes.
C10_SelectionInRange ==
    labels # <<>> => selected_label_idx \in 0..(Len(labels) - 1)

C10_Witness ==
    /\ op = "delete_button"
    /\ Len(labels) = 1
    /\ selected_label_idx = 0
    /\ last_clicked # Absent
    /\ labels[1].lat = last_clicked.lat

\* C11: a click becomes at most one record.  No run adds more than one record;
\* a run adds a record only if the map widget reports a click that differs
\* from the stored one, after which the stored one is the reported one; so
\* between runs no reported click is pending, and while the widget keeps
\* reporting the same click (also after Delete or Clear All) the list does not
\* grow.
C11_OneRecordPerClick ==
    /\ [](map_clicked # Absent => map_clicked = last_clicked)
    /\ [][/\ Len(labels') <= Len(labels) + 1
          /\ Len(labels') > Len(labels) =>
                /\ map_clicked' # Absent
                /\ map_clicked' # last_clicked
                /\ last_clicked' = map_clicked'
          /\ map_clicked' = map_clicked => Len(labels') <= Len(labels)]_vars

\* a re-render after the list was emptied, the widget still reporting the click
C11_Witness ==
    /\ op = "widget"
    /\ labels = <<>>
    /\ map_clicked # Absent
    /\ map_clicked = last_clicked

====
